---- MODULE Spec2Model ----
(***************************************************************************)
(* 3D Character Shop API (src/main.py, src/schemas.py): the catalog store, *)
(* the seed helper, the list query and the checkout handler.               *)
(*                                                                         *)
(* Text is a tuple of one-character strings, so that substring and         *)
(* regular-expression matching, hex parsing and case are computed.         *)
(* An Optional value is <<>> (None) or <<v>>.                              *)
(* Prices are whole dollars (the demo prices 29.0, 39.0, 24.0 and their    *)
(* small multiples are exact in binary floating point).                   *)
(* The receipt's order_id (a fresh uuid4) is left out: no handler reads it.*)
(***************************************************************************)
EXTENDS Integers, Sequences, FiniteSets, TLC

VARIABLES
    db,        \* TRUE: the store handle is configured; FALSE: db is None
    coll,      \* db["charactermodel"]: the documents, in natural (insertion) order
    last,      \* sequential client: the request in hand and its response
    procs,     \* concurrent clients: each request's position and locals
    coll0      \* the collection as it was when the concurrent requests started

vars == <<db, coll, last, procs, coll0>>

\* ---------------------------------------------------------------- bounds

MaxItems == 2          \* longest items list of a sequential checkout request
MaxQty == 2            \* largest requested quantity
MaxDownloads == 2      \* cap on a downloads counter (guards only)
MaxLimit == 2          \* largest explicit limit of a list request
NumProcs == 2          \* concurrent requests in flight

\* ------------------------------------------------------- program constants

DefaultLimit == 50     \* list_models(limit: int = 50)
OidHexLen == 24        \* an ObjectId string is 24 hex characters (12 bytes)

\* ------------------------------------------------------------------ text

None == <<>>
Some(v) == <<v>>
\* Python truthiness of an Optional[str]: None and the empty string are falsy.
\* A tag is an atomic string, a search text a tuple of characters.
TruthyTag(o) == o # <<>> /\ o[1] # ""
TruthyText(o) == o # <<>> /\ Len(o[1]) > 0

UpperChars == <<"A","B","C","D","E","F","G","H","I","J","K","L","M",
                "N","O","P","Q","R","S","T","U","V","W","X","Y","Z">>
LowerChars == <<"a","b","c","d","e","f","g","h","i","j","k","l","m",
                "n","o","p","q","r","s","t","u","v","w","x","y","z">>

\* str.lower / str.upper on one character, as lookup tables over the letters.
LowerOf == [c \in {UpperChars[i] : i \in 1..Len(UpperChars)} |->
               LowerChars[CHOOSE i \in 1..Len(UpperChars) : UpperChars[i] = c]]
UpperOf == [c \in {LowerChars[i] : i \in 1..Len(LowerChars)} |->
               UpperChars[CHOOSE i \in 1..Len(LowerChars) : LowerChars[i] = c]]

ToLower(c) == IF c \in DOMAIN LowerOf THEN LowerOf[c] ELSE c
ToUpper(c) == IF c \in DOMAIN UpperOf THEN UpperOf[c] ELSE c

UpperStr(s) == [i \in 1..Len(s) |-> ToUpper(s[i])]

\* {"$regex": pat, "$options": "i"}: an unanchored, case-insensitive search with
\* pat read as a regular expression. Of the pattern language the model keeps the
\* literal characters and the wildcard "." (any one character).
RegexSearchI(pat, text) ==
    \E s \in 1..(Len(text) + 1) :
        \A j \in 1..Len(pat) :
            /\ s + j - 1 <= Len(text)
            /\ \/ pat[j] = "."
               \/ ToLower(pat[j]) = ToLower(text[s + j - 1])

\* ------------------------------------------------------------- ObjectId

HexChars == <<"0","1","2","3","4","5","6","7","8","9","a","b","c","d","e","f">>

\* The value of each hexadecimal digit, of either case.
HexValOf == [c \in {HexChars[i] : i \in 1..16} \cup {ToUpper(HexChars[i]) : i \in 1..16} |->
                (CHOOSE i \in 1..16 : HexChars[i] = ToLower(c)) - 1]

IsHexChar(c) == c \in DOMAIN HexValOf
HexVal(c) == HexValOf[c]

\* ObjectId.is_valid(i) for a str: 24 characters, all hexadecimal, either case.
ObjectIdIsValid(s) ==
    /\ Len(s) = OidHexLen
    /\ \A i \in 1..Len(s) : IsHexChar(s[i])

\* ObjectId(i): the 12 bytes the hex string spells (bytes.fromhex).
ObjectId(s) ==
    [b \in 1..(OidHexLen \div 2) |-> 16 * HexVal(s[2 * b - 1]) + HexVal(s[2 * b])]

\* str(doc["_id"]): the 12 bytes as 24 lowercase hex characters.
StrOid(oid) ==
    [i \in 1..(2 * Len(oid)) |->
        IF i % 2 = 1 THEN HexChars[(oid[(i + 1) \div 2] \div 16) + 1]
                     ELSE HexChars[(oid[i \div 2] % 16) + 1]]

\* The _id the store assigns to the n-th inserted document: 12 bytes, distinct
\* per n, with a hex letter in the last byte (0xab, 0xac, ...).
NewObjectId(n) == [b \in 1..(OidHexLen \div 2) |-> IF b < OidHexLen \div 2 THEN 0 ELSE 170 + n]

\* --------------------------------------------------------- demo catalog

\* CharacterModel(...) with the schema's default downloads = 0.
CharacterModel(name, description, price, thumbnail_url, preview_url, tags) ==
    [name |-> name, description |-> description, price |-> price,
     thumbnail_url |-> thumbnail_url, preview_url |-> preview_url,
     tags |-> tags, downloads |-> 0]

demo_items == <<
    CharacterModel(
        <<"N","e","o","n"," ","R","u","n","n","e","r">>,
        Some(<<"S","t","y","l","i","z","e","d"," ","c","y","b","e","r","p","u","n","k"," ",
               "r","u","n","n","e","r"," ","w","i","t","h"," ","g","l","o","w","i","n","g"," ",
               "a","c","c","e","n","t","s">>),
        29, Some("https://images.unsplash.com/photo-1542751371-adc38448a05e"),
        Some("https://youtu.be/dQw4w9WgXcQ"),
        <<"cyberpunk", "stylized", "game-ready">>),
    CharacterModel(
        <<"F","o","r","e","s","t"," ","G","u","a","r","d","i","a","n">>,
        Some(<<"F","a","n","t","a","s","y"," ","a","r","c","h","e","r"," ","w","i","t","h"," ",
               "c","l","o","a","k"," ","a","n","d"," ","l","i","g","h","t"," ",
               "a","r","m","o","r">>),
        39, Some("https://images.unsplash.com/photo-1605721911519-3dfeb3be25e7"),
        None,
        <<"fantasy", "archer", "PBR">>),
    CharacterModel(
        <<"M","e","c","h"," ","S","c","o","u","t">>,
        Some(<<"C","o","m","p","a","c","t"," ","s","c","i","-","f","i"," ","m","e","c","h"," ",
               "w","i","t","h"," ","e","m","i","s","s","i","v","e"," ",
               "d","e","t","a","i","l","s">>),
        24, Some("https://images.unsplash.com/photo-1517694712202-14dd9538aa97"),
        None,
        <<"sci-fi", "mech", "low-poly">>)
>>

\* ---------------------------------------------------------------- store

\* count_documents({})
CountDocuments(c) == Len(c)

\* create_document(collection, item): insert the model's fields under a fresh _id.
CreateDocument(c, item) ==
    Append(c, [_id |-> NewObjectId(Len(c) + 1),
               name |-> item.name, description |-> item.description,
               price |-> item.price, thumbnail_url |-> item.thumbnail_url,
               preview_url |-> item.preview_url, tags |-> item.tags,
               downloads |-> item.downloads])

\* Variant of FindByIds: an empty $in list is taken for "no filter".
FindByIdsEmptyMatchesAll(c, oids) ==
    LET Keep(d) == oids = <<>> \/ \E k \in 1..Len(oids) : oids[k] = d._id
    IN  SelectSeq(c, Keep)

\* find({"_id": {"$in": oids}}): each stored document whose _id is listed, once.
FindByIds(c, oids) ==
    LET Keep(d) == \E k \in 1..Len(oids) : oids[k] = d._id
    IN  SelectSeq(c, Keep)

\* update_one({"_id": oid}, {"$inc": {"downloads": inc}}): one atomic step of the
\* store, applied to the stored document as it is at that moment.
UpdateOneInc(c, oid, inc) ==
    LET hit == {i \in 1..Len(c) : c[i]._id = oid}
    IN  IF hit = {} THEN c
        ELSE LET i == CHOOSE i \in hit : \A j \in hit : i <= j
             IN  [c EXCEPT ![i].downloads = c[i].downloads + inc]

\* ----------------------------------------------------------- list_models

\* filt = {}; if tag: filt["tags"] = {"$in": [tag]}; if q: filt["$or"] = [regex...]
BuildFilter(tag, q) ==
    [tags_in |-> IF TruthyTag(tag) THEN Some(<<tag[1]>>) ELSE None,
     or_regex |-> IF TruthyText(q) THEN Some(q[1]) ELSE None]

\* Whether a stored document satisfies the filter: tags holds one of the listed
\* values, and name or description matches the regular expression. A missing
\* (None) description matches no regular expression.
MatchesFilter(d, filt) ==
    /\ \/ filt.tags_in = None
       \/ \E t \in 1..Len(d.tags) : \E k \in 1..Len(filt.tags_in[1]) :
             d.tags[t] = filt.tags_in[1][k]
    /\ \/ filt.or_regex = None
       \/ RegexSearchI(filt.or_regex[1], d.name)
       \/ /\ d.description # None
          /\ RegexSearchI(filt.or_regex[1], d.description[1])

\* get_documents(collection, filt, limit): the first `limit` matching documents.
GetDocuments(c, filt, limit) ==
    LET Keep(d) == MatchesFilter(d, filt)
        hits == SelectSeq(c, Keep)
    IN  IF Len(hits) <= limit THEN hits ELSE SubSeq(hits, 1, limit)

\* convert(doc): _id popped and exposed as the string id.
convert(d) ==
    [id |-> StrOid(d._id), name |-> d.name, description |-> d.description,
     price |-> d.price, thumbnail_url |-> d.thumbnail_url,
     preview_url |-> d.preview_url, tags |-> d.tags, downloads |-> d.downloads]

ListResponse(dbv, c, tag, q, limit) ==
    IF ~dbv THEN [status |-> 200, body |-> <<>>]
    ELSE LET docs == GetDocuments(c, BuildFilter(tag, q), limit)
         IN  [status |-> 200, body |-> [k \in 1..Len(docs) |-> convert(docs[k])]]

\* -------------------------------------------------------------- checkout

Max(a, b) == IF a >= b THEN a ELSE b

\* ids = [i.id for i in payload.items]
RequestIds(items) == [k \in 1..Len(items) |-> items[k].id]

\* Variant of QtyMap: the requested quantity is stored as given, not raised to 1.
QtyMapNoClamp(items) ==
    [key \in {items[k].id : k \in 1..Len(items)} |->
        LET lastk == CHOOSE k \in 1..Len(items) :
                        /\ items[k].id = key
                        /\ \A j \in 1..Len(items) : items[j].id = key => j <= k
        IN  items[lastk].qty]

\* qty_map = {i.id: max(1, i.qty) for i in payload.items}: keyed by the id as the
\* request spells it; a later entry with the same key overwrites an earlier one.
QtyMap(items) ==
    [key \in {items[k].id : k \in 1..Len(items)} |->
        LET lastk == CHOOSE k \in 1..Len(items) :
                        /\ items[k].id = key
                        /\ \A j \in 1..Len(items) : items[j].id = key => j <= k
        IN  Max(1, items[lastk].qty)]

\* qty_map.get(str(doc["_id"]), 1)
QtyGet(qty_map, d) ==
    IF StrOid(d._id) \in DOMAIN qty_map THEN qty_map[StrOid(d._id)] ELSE 1

\* [ObjectId(i) for i in ids if ObjectId.is_valid(i)]
ValidOids(ids) ==
    LET ok == SelectSeq(ids, ObjectIdIsValid)
    IN  [k \in 1..Len(ok) |-> ObjectId(ok[k])]

\* found = list(db["charactermodel"].find({"_id": {"$in": [...]}}))
Found(c, items) == FindByIds(c, ValidOids(RequestIds(items)))

\* Variant of IncrementDownloads: read-modify-write, the counter set to the value
\* find returned plus inc instead of incremented in the store.
IncrementDownloadsStale(c, doc, inc) ==
    LET hit == {i \in 1..Len(c) : c[i]._id = doc._id}
    IN  [i \in 1..Len(c) |->
            IF i \in hit THEN [c[i] EXCEPT !.downloads = doc.downloads + inc] ELSE c[i]]

\* db["charactermodel"].update_one({"_id": doc["_id"]}, {"$inc": {"downloads": inc}})
\* for a document as find returned it: the store adds inc to the stored counter.
IncrementDownloads(c, doc, inc) == UpdateOneInc(c, doc._id, inc)

\* for doc in found: try: update_one(..., {"$inc": {"downloads": inc}}) except: pass
\* from the k-th found document on; `raised` holds the positions whose update_one
\* raised (the store rejected it), which the handler swallows.
RECURSIVE UpdateCounters(_, _, _, _, _)
UpdateCounters(c, found, qty_map, raised, k) ==
    IF k > Len(found) THEN c
    ELSE UpdateCounters(
            IF k \in raised THEN c
            ELSE IncrementDownloads(c, found[k], QtyGet(qty_map, found[k])),
            found, qty_map, raised, k + 1)

\* doc.get("preview_url") or doc.get("thumbnail_url")
DownloadLink(d) == IF TruthyTag(d.preview_url) THEN d.preview_url ELSE d.thumbnail_url

\* line_items.append({...})
LineItem(d, qty_map) ==
    LET q == QtyGet(qty_map, d)
    IN  [id |-> StrOid(d._id), name |-> d.name, qty |-> q, price |-> d.price,
         line_total |-> d.price * q, download_links |-> <<DownloadLink(d)>>]

LineItems(found, qty_map) == [k \in 1..Len(found) |-> LineItem(found[k], qty_map)]

\* Variant of Subtotal: `subtotal = total` in place of `subtotal += total`.
SubtotalLastOnly(found, qty_map) ==
    IF found = <<>> THEN 0
    ELSE found[Len(found)].price
         * (IF StrOid(found[Len(found)]._id) \in DOMAIN qty_map
            THEN qty_map[StrOid(found[Len(found)]._id)] ELSE 1)

\* subtotal = 0.0; for doc in found: subtotal += total
RECURSIVE Subtotal(_, _)
Subtotal(found, qty_map) ==
    IF found = <<>> THEN 0
    ELSE Subtotal(SubSeq(found, 1, Len(found) - 1), qty_map)
         + found[Len(found)].price * QtyGet(qty_map, found[Len(found)])

Receipt(found, qty_map) ==
    [status |-> 200,
     body |-> [items |-> LineItems(found, qty_map),
               subtotal |-> Subtotal(found, qty_map),
               message |-> "Order confirmed. Download links are ready."]]

HTTPException(status_code, detail) == [status |-> status_code, body |-> detail]

\* Variant of CheckoutError: the empty-items check is missing.
CheckoutErrorNoEmptyCheck(dbv, c, items) ==
    IF ~dbv THEN <<[status |-> 500, body |-> "Database not configured"]>>
    ELSE IF FindByIds(c, ValidOids(RequestIds(items))) = <<>>
         THEN <<[status |-> 404, body |-> "Models not found"]>>
    ELSE <<>>

\* The checks that end a checkout before it touches a counter; <<>> when none does.
CheckoutError(dbv, c, items) ==
    IF ~dbv THEN <<HTTPException(500, "Database not configured")>>
    ELSE IF items = <<>> THEN <<HTTPException(400, "No items in checkout")>>
    ELSE IF Found(c, items) = <<>> THEN <<HTTPException(404, "Models not found")>>
    ELSE <<>>

\* ------------------------------------------------------------------ seed

\* Variant of AlreadySeeded: the guard can never hold.
AlreadySeededNever(existing) == existing < 0

\* if existing > 0: return {"seeded": False, ...}
AlreadySeeded(existing) == existing > 0

RECURSIVE InsertAll(_, _, _)
InsertAll(c, items, k) ==
    IF k > Len(items) THEN c
    ELSE InsertAll(CreateDocument(c, items[k]), items, k + 1)

SeedSkipped == [status |-> 200,
                body |-> [seeded |-> FALSE, message |-> "Collection already has documents"]]
SeedDone == [status |-> 200, body |-> [seeded |-> TRUE, count |-> Len(demo_items)]]

\* ---------------------------------------------------------------- inputs

\* How a request may spell an identifier: the first and second stored ids as the
\* API prints them (lowercase hex), the first one in uppercase hex, and a
\* 24-character string that is not hexadecimal. On the empty catalog the first
\* three are well-formed ids that no document has.
IdFirst == StrOid(NewObjectId(1))
IdFirstUpper == UpperStr(IdFirst)
IdSecond == StrOid(NewObjectId(2))
IdMalformed == [i \in 1..OidHexLen |-> IF i < OidHexLen THEN "0" ELSE "g"]

IdSpellings == {IdFirst, IdFirstUpper, IdSecond, IdMalformed}
QtySet == (-1)..MaxQty
CheckoutItem == [id : IdSpellings, qty : QtySet]

SeqsUpTo(S, n) == UNION {[1..m -> S] : m \in 0..n}
Requests == SeqsUpTo(CheckoutItem, MaxItems)

TagInputs == {None, Some(""), Some("fantasy"), Some("Fantasy"), Some("mech")}
QInputs == {None, Some(<<>>), Some(<<"n","e","o","n">>), Some(<<"A","R","C","H","E","R">>),
            Some(<<"m","e","c","h">>), Some(<<"n",".","o","n">>), Some(<<"m",".",".","h">>),
            Some(<<"x","q">>)}
LimitInputs == (1..MaxLimit) \cup {DefaultLimit}

\* ------------------------------------------------- one request at a time

Idle == [op |-> "idle", req |-> <<>>, pre |-> <<>>, raised |-> {}, resp |-> <<>>]

Handled(op, req, raised, resp) ==
    [op |-> op, req |-> req, pre |-> coll, raised |-> raised, resp |-> resp]

\* POST /seed
Seed ==
    /\ last = Idle
    /\ IF ~db
       THEN /\ coll' = coll
            /\ last' = Handled("seed", <<>>, {}, HTTPException(500, "Database not configured"))
       ELSE IF AlreadySeeded(CountDocuments(coll))
       THEN /\ coll' = coll
            /\ last' = Handled("seed", <<>>, {}, SeedSkipped)
       ELSE /\ coll' = InsertAll(coll, demo_items, 1)
            /\ last' = Handled("seed", <<>>, {}, SeedDone)
    /\ UNCHANGED <<db, procs, coll0>>

\* GET /models?tag=&q=&limit=
ListModels ==
    /\ last = Idle
    /\ \E tag \in TagInputs, q \in QInputs, limit \in LimitInputs :
         last' = Handled("list", [tag |-> tag, q |-> q, limit |-> limit], {},
                         ListResponse(db, coll, tag, q, limit))
    /\ UNCHANGED <<db, coll, procs, coll0>>

\* POST /checkout
Checkout ==
    /\ last = Idle
    /\ \E items \in Requests :
         LET err == CheckoutError(db, coll, items)
             found == Found(coll, items)
             qty_map == QtyMap(items)
         IN  IF err # <<>>
             THEN /\ coll' = coll
                  /\ last' = Handled("checkout", items, {}, err[1])
             ELSE \E raised \in SUBSET (1..Len(found)) :
                  /\ \A k \in 1..Len(found) :
                        found[k].downloads + QtyGet(qty_map, found[k]) <= MaxDownloads
                  /\ coll' = UpdateCounters(coll, found, qty_map, raised, 1)
                  /\ last' = Handled("checkout", items, raised, Receipt(found, qty_map))
    /\ UNCHANGED <<db, procs, coll0>>

\* The response reaches the client, which may then send its next request.
Deliver ==
    /\ last # Idle
    /\ last' = Idle
    /\ UNCHANGED <<db, coll, procs, coll0>>

\* ------------------------------------------------- requests in parallel

\* Each client sends one request; a handler's store operations (count, insert,
\* find, update_one) are the steps that interleave.
Procs == 1..NumProcs

IdleProc == [pc |-> "idle", op |-> "none", req |-> <<>>, found |-> <<>>, k |-> 0,
             applied |-> {}, resp |-> <<>>]

Line(id, qty) == [id |-> id, qty |-> qty]
ConcRequests == {<<>>,
                 <<Line(IdMalformed, 1)>>,
                 <<Line(IdFirst, 2)>>,
                 <<Line(IdFirst, 0)>>,
                 <<Line(IdFirstUpper, 2)>>,
                 <<Line(IdSecond, 1), Line(IdFirst, 2)>>}

SeededCatalog == InsertAll(<<>>, demo_items, 1)

\* seed_demo_models up to and including count_documents
SeedCount(p) ==
    /\ procs[p].pc = "idle"
    /\ procs' = [procs EXCEPT ![p] =
         IF ~db
         THEN [@ EXCEPT !.pc = "done", !.op = "seed",
                        !.resp = HTTPException(500, "Database not configured")]
         ELSE IF AlreadySeeded(CountDocuments(coll))
         THEN [@ EXCEPT !.pc = "done", !.op = "seed", !.resp = SeedSkipped]
         ELSE [@ EXCEPT !.pc = "seed_insert", !.op = "seed", !.k = 1]]
    /\ UNCHANGED <<db, coll, last, coll0>>

\* one create_document of the loop; after the last one the handler returns
SeedInsert(p) ==
    /\ procs[p].pc = "seed_insert"
    /\ coll' = CreateDocument(coll, demo_items[procs[p].k])
    /\ procs' = [procs EXCEPT ![p] =
         IF procs[p].k = Len(demo_items)
         THEN [@ EXCEPT !.pc = "done", !.resp = SeedDone]
         ELSE [@ EXCEPT !.k = @ + 1]]
    /\ UNCHANGED <<db, last, coll0>>

\* checkout up to and including find
CheckoutFind(p) ==
    /\ procs[p].pc = "idle"
    /\ \E items \in ConcRequests :
         LET err == CheckoutError(db, coll, items)
         IN  procs' = [procs EXCEPT ![p] =
                IF err # <<>>
                THEN [@ EXCEPT !.pc = "done", !.op = "checkout", !.req = items,
                               !.resp = err[1]]
                ELSE [@ EXCEPT !.pc = "checkout_update", !.op = "checkout",
                               !.req = items, !.found = Found(coll, items), !.k = 1]]
    /\ UNCHANGED <<db, coll, last, coll0>>

\* one update_one of the loop: the store applies the increment atomically, or the
\* call raises and the handler swallows it
CheckoutUpdate(p) ==
    LET me == procs[p]
    IN  /\ me.pc = "checkout_update"
        /\ me.k <= Len(me.found)
        /\ \/ /\ coll' = IncrementDownloads(coll, me.found[me.k],
                                            QtyGet(QtyMap(me.req), me.found[me.k]))
              /\ procs' = [procs EXCEPT ![p].k = @ + 1, ![p].applied = @ \cup {me.k}]
           \/ /\ coll' = coll
              /\ procs' = [procs EXCEPT ![p].k = @ + 1]
        /\ UNCHANGED <<db, last, coll0>>

\* the receipt is built from the documents as find returned them
CheckoutReturn(p) ==
    LET me == procs[p]
    IN  /\ me.pc = "checkout_update"
        /\ me.k > Len(me.found)
        /\ procs' = [procs EXCEPT ![p].pc = "done",
                                  ![p].resp = Receipt(me.found, QtyMap(me.req))]
        /\ UNCHANGED <<db, coll, last, coll0>>

Init ==
    /\ db \in BOOLEAN
    /\ coll = <<>>
    /\ last = Idle
    /\ procs = [p \in Procs |-> IdleProc]
    /\ coll0 = <<>>

Next == Seed \/ ListModels \/ Checkout \/ Deliver

Spec == Init /\ [][Next]_vars

InitConc ==
    /\ db \in BOOLEAN
    /\ coll \in {<<>>, SeededCatalog}
    /\ coll0 = coll
    /\ last = Idle
    /\ procs = [p \in Procs |-> IdleProc]

NextConc ==
    \E p \in Procs :
        \/ SeedCount(p)
        \/ SeedInsert(p)
        \/ CheckoutFind(p)
        \/ CheckoutUpdate(p)
        \/ CheckoutReturn(p)

SpecConc == InitConc /\ [][NextConc]_vars

\* ================================================================ claims

LowerStr(s) == [i \in 1..Len(s) |-> ToLower(s[i])]

\* A request identifier is well formed: 24 characters, each a hex digit of either case.
WellFormed(s) ==
    /\ Len(s) = 24
    /\ \A i \in 1..Len(s) :
         s[i] \in {"0","1","2","3","4","5","6","7","8","9","a","b","c","d","e","f",
                   "A","B","C","D","E","F"}

\* The request entry spells the identifier of the stored document d.
Names(entry, d) == WellFormed(entry.id) /\ LowerStr(entry.id) = StrOid(d._id)

\* The positions of the request's entries that name a document of the collection c.
Resolving(items, c) ==
    {k \in 1..Len(items) : \E i \in 1..Len(c) : Names(items[k], c[i])}

\* The quantity asked for d: that of the last request entry naming it.
LastQtyFor(items, d) ==
    LET ks == {k \in 1..Len(items) : Names(items[k], d)}
    IN  items[CHOOSE k \in ks : \A j \in ks : j <= k].qty

AtLeastOne(q) == IF q < 1 THEN 1 ELSE q

RECURSIVE SumPriceQty(_)
SumPriceQty(lines) ==
    IF lines = <<>> THEN 0
    ELSE Head(lines).price * Head(lines).qty + SumPriceQty(Tail(lines))

CheckoutReturned == last.op = "checkout" /\ last.resp.status = 200

\* C1: every checkout that returns a receipt has subtotal = the sum over its lines
\* of price * qty, each line_total = price * qty, and every line's qty >= 1, also
\* when the requested quantity was 0 or negative.
C1_ReceiptTotals ==
    CheckoutReturned =>
        LET lines == last.resp.body.items
        IN  /\ last.resp.body.subtotal = SumPriceQty(lines)
            /\ \A k \in 1..Len(lines) :
                 /\ lines[k].line_total = lines[k].price * lines[k].qty
                 /\ lines[k].qty >= 1

\* A two-line receipt, one of whose items was requested with a quantity below 1.
C1_Witness ==
    /\ CheckoutReturned
    /\ Len(last.resp.body.items) = 2
    /\ \E k \in 1..Len(last.req) :
         /\ last.req[k].qty < 1
         /\ \E n \in 1..Len(last.resp.body.items) :
              last.resp.body.items[n].id = last.req[k].id

\* C2: when a request names a stored item more than once, however it spells the
\* identifier, the receipt has exactly one line for the item, with qty
\* max(1, q) for the quantity q of the last entry that names it.
C2_LastQtyWinsAnySpelling ==
    CheckoutReturned =>
        \A i \in 1..Len(last.pre) :
            (\E k \in 1..Len(last.req) : Names(last.req[k], last.pre[i])) =>
                LET lines == last.resp.body.items
                    mine == {n \in 1..Len(lines) : lines[n].id = StrOid(last.pre[i]._id)}
                IN  /\ Cardinality(mine) = 1
                    /\ \A n \in mine :
                         lines[n].qty = AtLeastOne(LastQtyFor(last.req, last.pre[i]))

\* C3: after a checkout that returns a receipt, each resolved item's stored
\* downloads has grown by max(1, requested qty), the qty of its receipt line,
\* and every other item's counter is unchanged. Stated for the checkouts all of
\* whose update_one calls the store applied.
C3_CountersGrowByResolvedQty ==
    (CheckoutReturned /\ last.raised = {}) =>
        /\ Len(coll) = Len(last.pre)
        /\ \A i \in 1..Len(last.pre) :
             IF \E k \in 1..Len(last.req) : Names(last.req[k], last.pre[i])
             THEN /\ coll[i].downloads = last.pre[i].downloads
                                          + AtLeastOne(LastQtyFor(last.req, last.pre[i]))
                  /\ \E n \in 1..Len(last.resp.body.items) :
                       /\ last.resp.body.items[n].id = StrOid(last.pre[i]._id)
                       /\ coll[i].downloads = last.pre[i].downloads
                                               + last.resp.body.items[n].qty
             ELSE coll[i].downloads = last.pre[i].downloads

EmptyCheckout == last.op = "checkout" /\ last.req = <<>>

\* C4 as stated: a checkout with an empty items list fails with 400 in every
\* state of the store, configured or not, and writes nothing.
C4_EmptyItemsAlways400 ==
    EmptyCheckout => (last.resp.status = 400 /\ coll = last.pre)

\* C4 as amended: a checkout with an empty items list writes nothing; it fails
\* with 400 when the store is configured and with 500 when it is not.
C4_EmptyItems400WhenConfigured ==
    EmptyCheckout =>
        /\ coll = last.pre
        /\ last.resp.status = IF db THEN 400 ELSE 500

\* An empty checkout answered 400 against a seeded catalog.
C4_Witness ==
    /\ EmptyCheckout
    /\ db
    /\ Len(coll) > 0
    /\ last.resp.status = 400

\* C5: with the store configured, a checkout with a non-empty items list none of
\* whose identifiers names a stored item (malformed or absent) fails with 404
\* and changes no counter; when some do, it succeeds and the receipt's lines are
\* exactly the named items, malformed identifiers being dropped.
C5_NotFoundOrResolvedOnly ==
    (last.op = "checkout" /\ db /\ last.req # <<>>) =>
        LET hits == Resolving(last.req, last.pre)
        IN  IF hits = {}
            THEN last.resp.status = 404 /\ coll = last.pre
            ELSE /\ last.resp.status = 200
                 /\ {last.resp.body.items[n].id : n \in 1..Len(last.resp.body.items)}
                      = {LowerStr(last.req[k].id) : k \in hits}

\* A receipt for a request that also held a malformed identifier.
C5_Witness ==
    /\ CheckoutReturned
    /\ \E k \in 1..Len(last.req) : ~WellFormed(last.req[k].id)
    /\ \A n \in 1..Len(last.resp.body.items) :
         \E k \in 1..Len(last.req) : last.resp.body.items[n].id = LowerStr(last.req[k].id)

\* C6: called one after the other, a seed call on the empty catalog inserts the 3
\* demo items and reports seeded:true, count:3; a seed call on a non-empty
\* catalog reports seeded:false and writes nothing.
C6_SeedIdempotent ==
    (last.op = "seed" /\ db) =>
        IF last.pre = <<>>
        THEN /\ last.resp.body.seeded
             /\ last.resp.body.count = 3
             /\ Len(coll) = 3
             /\ \A i \in 1..Len(coll) : coll[i].name = demo_items[i].name
        ELSE /\ ~last.resp.body.seeded
             /\ coll = last.pre

\* A second seed call, answered seeded:false with the 3 items still in place.
C6_Witness ==
    /\ last.op = "seed"
    /\ db
    /\ last.pre # <<>>
    /\ ~last.resp.body.seeded
    /\ Len(coll) = 3

\* q is a case-insensitive substring of text.
SubstringI(q, text) ==
    \E s \in 1..(Len(text) + 1) :
        \A j \in 1..Len(q) :
            /\ s + j - 1 <= Len(text)
            /\ ToLower(q[j]) = ToLower(text[s + j - 1])

\* C7: list_models returns only items for which (tag absent or tag one of the
\* item's tags) and (q absent or q a case-insensitive substring of the name or
\* the description), at most limit of them, and leaves the store as it was.
\* An empty tag or q counts as absent.
C7_ListMatchesTagAndSubstring ==
    last.op = "list" =>
        LET tag == last.req.tag
            q == last.req.q
            out == last.resp.body
        IN  /\ coll = last.pre
            /\ Len(out) <= last.req.limit
            /\ \A n \in 1..Len(out) :
                 /\ \/ ~TruthyTag(tag)
                    \/ \E t \in 1..Len(out[n].tags) : out[n].tags[t] = tag[1]
                 /\ \/ ~TruthyText(q)
                    \/ SubstringI(q[1], out[n].name)
                    \/ /\ out[n].description # None
                       /\ SubstringI(q[1], out[n].description[1])

AllDone == \A p \in Procs : procs[p].pc = "done"

Returned(p) == procs[p].op = "checkout" /\ procs[p].pc = "done" /\ procs[p].resp.status = 200

InitialDownloads(i) == IF i <= Len(coll0) THEN coll0[i].downloads ELSE 0

\* The position in p's receipt of the line for the stored document i; 0 when none.
LineOf(p, i) ==
    LET lines == procs[p].resp.body.items
        ns == {n \in 1..Len(lines) : lines[n].id = StrOid(coll[i]._id)}
    IN  IF ns = {} THEN 0 ELSE CHOOSE n \in ns : TRUE

\* The quantity p's receipt reports for document i; 0 when p returned no receipt
\* or none with a line for it.
ReceiptQty(p, i) ==
    IF Returned(p) /\ LineOf(p, i) # 0
    THEN procs[p].resp.body.items[LineOf(p, i)].qty
    ELSE 0

\* The same, counting only a line whose increment the store applied.
AppliedQty(p, i) ==
    IF Returned(p) /\ LineOf(p, i) \in procs[p].applied
    THEN procs[p].resp.body.items[LineOf(p, i)].qty
    ELSE 0

RECURSIVE ReceiptQtySum(_, _)
ReceiptQtySum(n, i) ==
    IF n = 0 THEN 0 ELSE ReceiptQtySum(n - 1, i) + ReceiptQty(n, i)

RECURSIVE AppliedQtySum(_, _)
AppliedQtySum(n, i) ==
    IF n = 0 THEN 0 ELSE AppliedQtySum(n - 1, i) + AppliedQty(n, i)

\* C8 as stated: once all concurrent requests have completed, each item's
\* downloads is its initial value plus the sum of the quantities of all the
\* receipts returned for it; no increment is lost.
C8_NoIncrementLost ==
    AllDone =>
        \A i \in 1..Len(coll) :
            coll[i].downloads = InitialDownloads(i) + ReceiptQtySum(NumProcs, i)

\* C8 as amended: once all concurrent requests have completed, each item's
\* downloads is its initial value plus the sum of the receipt quantities of the
\* increments the store applied, under every interleaving; a receipt line whose
\* update_one raised adds nothing.
C8_AppliedIncrementsAllCounted ==
    AllDone =>
        \A i \in 1..Len(coll) :
            coll[i].downloads = InitialDownloads(i) + AppliedQtySum(NumProcs, i)

\* Two checkouts both read the same item before either wrote it, both increments
\* were applied, and the counter holds both.
C8_Witness ==
    /\ AllDone
    /\ \E p \in Procs, r \in Procs, i \in 1..Len(coll) :
         /\ p # r
         /\ Returned(p) /\ Returned(r)
         /\ LineOf(p, i) \in procs[p].applied
         /\ LineOf(r, i) \in procs[r].applied
         /\ procs[p].found[LineOf(p, i)].downloads = InitialDownloads(i)
         /\ procs[r].found[LineOf(r, i)].downloads = InitialDownloads(i)
         /\ coll[i].downloads = InitialDownloads(i) + ReceiptQty(p, i) + ReceiptQty(r, i)

\* C9: across seed, list and checkout, every downloads counter is >= 0 and
\* never decreases, no document is removed or replaced, and a counter changes
\* only in a checkout whose receipt has a line for that item.
C9_DownloadsMonotone ==
    [][/\ Len(coll') >= Len(coll)
       /\ \A i \in 1..Len(coll') : coll'[i].downloads >= 0
       /\ \A i \in 1..Len(coll) :
            /\ coll'[i]._id = coll[i]._id
            /\ coll'[i].downloads >= coll[i].downloads
            /\ coll'[i].downloads # coll[i].downloads =>
                 /\ last'.op = "checkout"
                 /\ last'.resp.status = 200
                 /\ \E n \in 1..Len(last'.resp.body.items) :
                      last'.resp.body.items[n].id = StrOid(coll[i]._id)]_vars

\* A checkout has raised a counter above what it was.
C9_Witness ==
    /\ last.op = "checkout"
    /\ \E i \in 1..Len(last.pre) : coll[i].downloads > last.pre[i].downloads

\* C10: two seed calls that run concurrently on an empty catalog leave exactly 3
\* items, and at most one of them reports seeded:true.
C10_ConcurrentSeedNoDuplicates ==
    (AllDone /\ db /\ coll0 = <<>> /\ \A p \in Procs : procs[p].op = "seed") =>
        /\ Len(coll) = 3
        /\ Cardinality({p \in Procs : procs[p].resp.body.seeded}) <= 1

====
